---- MODULE Spec2Model ----
(***************************************************************************)
(* Model of src/ctrip_comment_spider.py: the paginated retrieval loop of   *)
(* CtripCommentSpider.fetch_comments and the item mapping _parse_comment.  *)
(*                                                                         *)
(* One action per way an iteration of the `while True` loop can go (the    *)
(* branches of the try body and each except handler), plus the call of     *)
(* fetch_comments and the max_pages test at the top of the loop.  The      *)
(* server's answer to a request is the input of an iteration, drawn from   *)
(* the bounded set Responses and kept in the variable response.            *)
(*                                                                         *)
(* Python values: None is the empty sequence <<>> and a present value v is *)
(* <<v>> (max_pages, returned).  Durations are in half seconds; the delay  *)
(* random.uniform draws, any real value of its interval, is rounded to a   *)
(* whole number of half seconds.                                           *)
(***************************************************************************)
EXTENDS Integers, Sequences, FiniteSets, TLC

\* ------------------------------------------------------------------ bounds
\* Requests one run may issue before the model stops exploring it.
MaxRequests == 7
\* Highest page index for which the model still issues a request.
MaxPage == 3
\* Requests of one run when a run is recorded to be fed to a second run.
MaxReplay == 3

\* ------------------------------------------------------- program constants
\* max_consecutive_empty = 3
max_consecutive_empty == 3
\* time.sleep(3) after a status code other than 200
SleepHttpError == 6
\* time.sleep(5) after requests.exceptions.Timeout
SleepTimeout == 10
\* time.sleep(10) after requests.exceptions.ConnectionError
SleepConnectionError == 20
\* time.sleep(5) after any other requests.exceptions.RequestException
SleepRequestException == 10
\* delay_range: tuple = (1.5, 3)
DelayLow == 3
DelayHigh == 6

VARIABLES
    pc,                    \* "idle": constructed; "loop": top of `while True`; "done": returned
    max_pages,             \* the max_pages argument: <<>> is None, <<m>> an int
    delay_range,           \* the delay_range argument: <<low, high>>
    page,                  \* local page
    total_count,           \* local total_count
    consecutive_empty,     \* local consecutive_empty
    comments_data,         \* self.comments_data
    total_count_from_api,  \* self.total_count_from_api
    returned,              \* the value fetch_comments returned: <<>> before it returns
    requests,              \* page index of every session.post issued, in order
    response,              \* what the last session.post gave: exception, status, body
    slept,                 \* duration of the time.sleep of the last iteration, 0 if none
    nsleeps,               \* number of time.sleep calls so far
    timeouts_in_row,       \* Timeout/ConnectionError outcomes in a row, see StreakAfter
    served,                \* the items list of every result envelope received, in order
    recording,             \* the outcomes of a run are recorded, to be fed to a second run
    history,               \* when recording: the outcomes of the requests of this run
    first_run              \* <<>>, or after a second call of fetch_comments on the same
                           \* spider <<r>>: the outcomes and the result of the first run

vars == <<pc, max_pages, delay_range, page, total_count, consecutive_empty, comments_data,
          total_count_from_api, returned, requests, response, slept, nsleeps,
          timeouts_in_row, served, recording, history, first_run>>

\* ------------------------------------------------------------- raw items
\* An item of the API's answer, by the shapes _parse_comment distinguishes:
\*   isDict          the item is a JSON object (item.get exists)
\*   userInfo        "absent" | "null" | "dict" (object with userNick and
\*                   identitiesName) | "str" (a non-empty string)
\*   publishTypeTag  "absent" | "null" | "str" ("<date> <label>") | "int"
\*   content         "absent" | "null" | "str"
\*   recommendItems  "absent" | "null" | "strs" (list of strings)
\*                   | "ints" (non-empty list of numbers)
\*   images          "absent" | "null" | "list" (list of two images)
\*                   | "int" (a number other than 0)
\*   commentId       the item's id
WellFormedItem ==
    [isDict |-> TRUE, userInfo |-> "dict", publishTypeTag |-> "str", content |-> "str",
     recommendItems |-> "strs", images |-> "list", commentId |-> 1]
NoUserInfoItem ==
    [isDict |-> TRUE, userInfo |-> "absent", publishTypeTag |-> "str", content |-> "str",
     recommendItems |-> "absent", images |-> "absent", commentId |-> 2]
NonDictItem ==
    [isDict |-> FALSE, userInfo |-> "absent", publishTypeTag |-> "absent",
     content |-> "absent", recommendItems |-> "absent", images |-> "absent",
     commentId |-> 0]

\* comment['用户名']: user_info.get("userNick", "匿名") if user_info else "匿名";
\* a userInfo that is no dict raises inside the inner try and gives "匿名"
\* (written "anonymous" here).
ParseUserName(item) ==
    IF item.isDict /\ item.userInfo = "dict" THEN "userNick" ELSE "anonymous"

\* comment['用户身份']: user_info.get("identitiesName", "") if user_info else ""
ParseIdentity(item) ==
    IF item.isDict /\ item.userInfo = "dict" THEN "identitiesName" ELSE ""

\* comment['评论时间'] = publish_tag.split(' ')[0] if publish_tag else "";
\* a publishTypeTag that is no string raises inside the inner try and gives ""
ParseDate(item) ==
    IF item.isDict /\ item.publishTypeTag = "str" THEN "date" ELSE ""

\* comment['评论内容'] = item.get("content", ""): the default stands for an
\* absent key only, a null is handed on as None
ParseContent(item) ==
    CASE item.content = "str" -> "content"
      [] item.content = "null" -> "None"
      [] OTHER -> ""

\* comment['推荐标签'] = ",".join(recommend_items) if recommend_items else ""
\* (only evaluated where the join does not raise)
ParseTags(item) ==
    IF item.recommendItems = "strs" THEN "tag,tag" ELSE ""

\* comment['图片数量'] = len(item.get("images", [])) if item.get("images") else 0
\* (only evaluated where len does not raise)
ParseImageCount(item) ==
    IF item.images = "list" THEN 2 ELSE 0

\* variant: the user info read with item["userInfo"], outside a try
ParseRaisesOnMissingUserInfo(item) ==
    \/ ~item.isDict
    \/ item.userInfo = "absent"
    \/ item.recommendItems = "ints"
    \/ item.images = "int"

\* The unguarded statements of _parse_comment raise: item.get on a non-dict
\* (line 129), ",".join on a list that holds non-strings (line 136) and len of
\* a number (line 142).
ParseRaises(item) ==
    \/ ~item.isDict
    \/ item.recommendItems = "ints"
    \/ item.images = "int"

\* _parse_comment: <<record>>, or <<>> for None when the outer try caught.
_parse_comment(item) ==
    IF ParseRaises(item)
    THEN <<>>
    ELSE << [author |-> ParseUserName(item),
             date |-> ParseDate(item),
             content |-> ParseContent(item),
             tags |-> ParseTags(item),
             commentId |-> item.commentId,
             imageCount |-> ParseImageCount(item),
             identity |-> ParseIdentity(item)] >>

\* variant: the loop over the items ends at the first item that maps to None
RECURSIVE ParseItemsStopAtNone(_)
ParseItemsStopAtNone(items) ==
    IF items = <<>> \/ _parse_comment(Head(items)) = <<>>
    THEN <<>>
    ELSE _parse_comment(Head(items)) \o ParseItemsStopAtNone(Tail(items))

\* for item in items: comment = self._parse_comment(item); if comment: append
RECURSIVE ParseItems(_)
ParseItems(items) ==
    IF items = <<>>
    THEN <<>>
    ELSE _parse_comment(Head(items)) \o ParseItems(Tail(items))

\* ------------------------------------------------------------- responses
\* The items lists the server answers with: none, two items that both map,
\* and a list whose first item makes _parse_comment return None.
Pages == {<<>>, <<WellFormedItem, NoUserInfoItem>>, <<NonDictItem, WellFormedItem>>}

\* The totalCount values the server reports.
TotalCounts == {0, 1}

NoBody == [exc |-> "none", status |-> 0, body |-> "none", items |-> <<>>, totalCount |-> 0]

\* session.post raised: no response object.
Raised(e) == [NoBody EXCEPT !.exc = e]
\* session.post returned a response with this status and no usable body.
Status(s) == [NoBody EXCEPT !.status = s]
\* status 200 with a body that is not JSON ("not_json"), a JSON object without
\* the key 'result' ("no_result"), or {"result": null} ("null_result").
Body(b) == [NoBody EXCEPT !.status = 200, !.body = b]
\* status 200 with {"result": {"items": items, "totalCount": total}}
Envelope(items, total) ==
    [NoBody EXCEPT !.status = 200, !.body = "envelope", !.items = items, !.totalCount = total]

Responses ==
    {Raised(e) : e \in {"Timeout", "ConnectionError", "RequestException"}}
    \cup {Status(s) : s \in {204, 500}}
    \cup {Body(b) : b \in {"not_json", "no_result", "null_result"}}
    \cup {Envelope(items, total) : items \in Pages, total \in TotalCounts}

\* ---------------------------------------------------------------- helpers
\* Python truthiness of the max_pages argument: None and 0 are falsy.
Truthy(mp) == mp # <<>> /\ mp[1] # 0

\* if max_pages and page > max_pages
PageLimitReached(mp, p) == Truthy(mp) /\ p > mp[1]

\* variant: the ceiling test written with > in place of >=
CeilingReachedStrict(c) == c > max_consecutive_empty

\* if consecutive_empty >= max_consecutive_empty
CeilingReached(c) == c >= max_consecutive_empty

\* variant: the first-page test written for a 0-based page index
NoCommentsAtAllZeroBased(p, total) == p = 0 /\ total = 0

\* if page == 1: ... if self.total_count_from_api == 0: return 0
NoCommentsAtAll(p, total) == p = 1 /\ total = 0

\* the page index after a status code other than 200: page += 1 (line 199)
PageAfterHttpError(p) == p + 1

\* the model explores an iteration that issues a request
CanRequest ==
    /\ pc = "loop"
    /\ ~PageLimitReached(max_pages, page)
    /\ Len(requests) < MaxRequests
    /\ page <= MaxPage
    /\ recording => Len(history) < MaxReplay

\* In a second run on the same spider the requests are answered as those of
\* the first run were, in the same order.
Replays(r) ==
    IF first_run = <<>>
    THEN TRUE
    ELSE /\ Len(history) < Len(first_run[1].history)
         /\ r = first_run[1].history[Len(history) + 1]

\* self.session.post(...) for the current page, answered by r
Post(r) ==
    /\ Replays(r)
    /\ requests' = Append(requests, page)
    /\ response' = r
    /\ served' = IF r.body = "envelope" THEN Append(served, r.items) ELSE served
    /\ history' = IF recording THEN Append(history, r) ELSE history
    /\ UNCHANGED <<recording, first_run, delay_range>>

\* break, then `return total_count`
Break ==
    /\ pc' = "done"
    /\ returned' = <<total_count>>
    /\ slept' = 0
    /\ UNCHANGED nsleeps

\* time.sleep(d); continue
SleepAndContinue(d) ==
    /\ pc' = "loop"
    /\ slept' = d
    /\ nsleeps' = nsleeps + 1
    /\ UNCHANGED returned

\* random.uniform(a, b): a value between the two ends, whichever is the lower
Uniform(a, b) == IF a <= b THEN a..b ELSE b..a

\* time.sleep(delay); the loop goes on.  A negative delay makes time.sleep
\* raise ValueError, which `except Exception` (line 266) catches: break, and
\* the count at that point is returned.
SleepDelay(delay, count) ==
    IF delay < 0
    THEN /\ pc' = "done"
         /\ returned' = <<count>>
         /\ slept' = 0
         /\ UNCHANGED nsleeps
    ELSE SleepAndContinue(delay)

Init ==
    /\ pc = "idle"
    /\ max_pages = <<>>
    /\ delay_range = <<DelayLow, DelayHigh>>
    /\ page = 0
    /\ total_count = 0
    /\ consecutive_empty = 0
    /\ comments_data = <<>>
    /\ total_count_from_api = 0
    /\ returned = <<>>
    /\ requests = <<>>
    /\ response = NoBody
    /\ slept = 0
    /\ nsleeps = 0
    /\ timeouts_in_row = 0
    /\ served = <<>>
    /\ recording = FALSE
    /\ history = <<>>
    /\ first_run = <<>>

\* Timeout/ConnectionError outcomes in the unbroken streak that ends at, or
\* just before, the response r now received.
StreakAfter(r) ==
    LET was == response.exc \in {"Timeout", "ConnectionError"}
        is == r.exc \in {"Timeout", "ConnectionError"}
    IN  IF is
        THEN (IF was THEN timeouts_in_row + 1 ELSE 1)
        ELSE (IF was THEN timeouts_in_row ELSE 0)

\* ---------------------------------------------------------------- actions
\* spider.fetch_comments(max_pages=mp, delay_range=dr): lines 158-174
fetch_comments(mp, dr) ==
    /\ pc = "idle"
    /\ pc' = "loop"
    /\ max_pages' = mp
    /\ delay_range' = dr
    /\ page' = 1
    /\ total_count' = 0
    /\ consecutive_empty' = 0
    /\ UNCHANGED <<comments_data, total_count_from_api, returned, requests, response,
                   slept, nsleeps, timeouts_in_row, served, recording, history, first_run>>

\* if max_pages and page > max_pages: break
MaxPagesReached ==
    /\ pc = "loop"
    /\ PageLimitReached(max_pages, page)
    /\ Break
    /\ UNCHANGED <<max_pages, page, total_count, consecutive_empty, comments_data,
                   total_count_from_api, requests, response, timeouts_in_row, served,
                   recording, history, first_run, delay_range>>

\* if response.status_code != 200: lines 193-201
HttpError ==
    \E r \in Responses :
        /\ CanRequest
        /\ r.exc = "none" /\ r.status # 200
        /\ Post(r)
        /\ consecutive_empty' = consecutive_empty + 1
        /\ IF CeilingReached(consecutive_empty + 1)
           THEN Break /\ UNCHANGED page
           ELSE page' = PageAfterHttpError(page) /\ SleepAndContinue(SleepHttpError)
        /\ timeouts_in_row' = StreakAfter(r)
        /\ UNCHANGED <<max_pages, total_count, comments_data, total_count_from_api>>

\* variant: a timeout handled like a generic request exception, counted
\* toward the ceiling
TimeoutCounted ==
    \E r \in Responses :
        /\ CanRequest
        /\ r.exc = "Timeout"
        /\ Post(r)
        /\ consecutive_empty' = consecutive_empty + 1
        /\ IF CeilingReached(consecutive_empty + 1)
           THEN Break
           ELSE SleepAndContinue(SleepTimeout)
        /\ timeouts_in_row' = StreakAfter(r)
        /\ UNCHANGED <<max_pages, page, total_count, comments_data, total_count_from_api>>

\* except requests.exceptions.Timeout: lines 241-244
Timeout ==
    \E r \in Responses :
        /\ CanRequest
        /\ r.exc = "Timeout"
        /\ Post(r)
        /\ SleepAndContinue(SleepTimeout)
        /\ timeouts_in_row' = StreakAfter(r)
        /\ UNCHANGED <<max_pages, page, total_count, consecutive_empty, comments_data,
                       total_count_from_api>>

\* variant: a connection error waited out like a timeout
ConnectionErrorShortSleep ==
    \E r \in Responses :
        /\ CanRequest
        /\ r.exc = "ConnectionError"
        /\ Post(r)
        /\ SleepAndContinue(SleepTimeout)
        /\ timeouts_in_row' = StreakAfter(r)
        /\ UNCHANGED <<max_pages, page, total_count, consecutive_empty, comments_data,
                       total_count_from_api>>

\* except requests.exceptions.ConnectionError: lines 246-250
ConnectionError ==
    \E r \in Responses :
        /\ CanRequest
        /\ r.exc = "ConnectionError"
        /\ Post(r)
        /\ SleepAndContinue(SleepConnectionError)
        /\ timeouts_in_row' = StreakAfter(r)
        /\ UNCHANGED <<max_pages, page, total_count, consecutive_empty, comments_data,
                       total_count_from_api>>

\* The exception raised is caught by `except requests.exceptions.RequestException`
\* (line 252): session.post raised one that is no Timeout and no ConnectionError,
\* or response.json() raised on a body that is not JSON.  What response.json()
\* raises depends on the requests library installed: from 2.27 on its own
\* JSONDecodeError, which derives from RequestException and is met by this
\* clause before the one of line 261; before 2.27 the standard library's, which
\* reaches line 261 (action JSONDecodeError).  Both outcomes are modelled.
IsRequestException(r) ==
    \/ r.exc = "RequestException"
    \/ r.exc = "none" /\ r.status = 200 /\ r.body = "not_json"

\* except requests.exceptions.RequestException: lines 252-259
RequestException ==
    \E r \in Responses :
        /\ CanRequest
        /\ IsRequestException(r)
        /\ Post(r)
        /\ consecutive_empty' = consecutive_empty + 1
        /\ IF CeilingReached(consecutive_empty + 1)
           THEN Break
           ELSE SleepAndContinue(SleepRequestException)
        /\ timeouts_in_row' = StreakAfter(r)
        /\ UNCHANGED <<max_pages, page, total_count, comments_data, total_count_from_api>>

\* except json.JSONDecodeError: lines 261-264, reached when response.json()
\* raises the standard library's exception (requests before 2.27)
JSONDecodeError ==
    \E r \in Responses :
        /\ CanRequest
        /\ r.exc = "none" /\ r.status = 200 /\ r.body = "not_json"
        /\ Post(r)
        /\ Break
        /\ timeouts_in_row' = StreakAfter(r)
        /\ UNCHANGED <<max_pages, page, total_count, consecutive_empty, comments_data,
                       total_count_from_api>>

\* variant: a missing result envelope handled as a retryable failure
MalformedEnvelopeRetried ==
    \E r \in Responses :
        /\ CanRequest
        /\ r.exc = "none" /\ r.status = 200 /\ r.body = "no_result"
        /\ Post(r)
        /\ consecutive_empty' = consecutive_empty + 1
        /\ IF CeilingReached(consecutive_empty + 1)
           THEN Break
           ELSE SleepAndContinue(SleepRequestException)
        /\ timeouts_in_row' = StreakAfter(r)
        /\ UNCHANGED <<max_pages, page, total_count, comments_data, total_count_from_api>>

\* if 'result' not in result: break  (lines 205-208)
MalformedEnvelope ==
    \E r \in Responses :
        /\ CanRequest
        /\ r.exc = "none" /\ r.status = 200 /\ r.body = "no_result"
        /\ Post(r)
        /\ Break
        /\ timeouts_in_row' = StreakAfter(r)
        /\ UNCHANGED <<max_pages, page, total_count, consecutive_empty, comments_data,
                       total_count_from_api>>

\* variant: no `except Exception` clause, the AttributeError leaves fetch_comments
UnknownErrorEscapes ==
    \E r \in Responses :
        /\ CanRequest
        /\ r.exc = "none" /\ r.status = 200 /\ r.body = "null_result"
        /\ Post(r)
        /\ pc' = "raised"
        /\ slept' = 0
        /\ timeouts_in_row' = StreakAfter(r)
        /\ UNCHANGED <<max_pages, page, total_count, consecutive_empty, comments_data,
                       total_count_from_api, returned, nsleeps>>

\* except Exception: break  (lines 266-268): {"result": null} makes
\* result_data.get raise AttributeError at line 211
UnknownError ==
    \E r \in Responses :
        /\ CanRequest
        /\ r.exc = "none" /\ r.status = 200 /\ r.body = "null_result"
        /\ Post(r)
        /\ Break
        /\ timeouts_in_row' = StreakAfter(r)
        /\ UNCHANGED <<max_pages, page, total_count, consecutive_empty, comments_data,
                       total_count_from_api>>

\* page == 1 and totalCount == 0: return 0  (lines 212-218)
FirstPageNoComments ==
    \E r \in Responses :
        /\ CanRequest
        /\ r.exc = "none" /\ r.status = 200 /\ r.body = "envelope"
        /\ NoCommentsAtAll(page, r.totalCount)
        /\ Post(r)
        /\ total_count_from_api' = r.totalCount
        /\ pc' = "done"
        /\ returned' = <<0>>
        /\ slept' = 0
        /\ timeouts_in_row' = StreakAfter(r)
        /\ UNCHANGED <<max_pages, page, total_count, consecutive_empty, comments_data,
                       nsleeps>>

\* variant: an empty page is skipped and the next page is fetched
EmptyPageSkipped ==
    \E r \in Responses :
        /\ CanRequest
        /\ r.exc = "none" /\ r.status = 200 /\ r.body = "envelope"
        /\ ~NoCommentsAtAll(page, r.totalCount)
        /\ r.items = <<>>
        /\ Post(r)
        /\ total_count_from_api' = r.totalCount
        /\ page' = page + 1
        /\ SleepAndContinue(DelayLow)
        /\ timeouts_in_row' = StreakAfter(r)
        /\ UNCHANGED <<max_pages, total_count, consecutive_empty, comments_data>>

\* if not items: break  (lines 220-222)
EmptyPage ==
    \E r \in Responses :
        /\ CanRequest
        /\ r.exc = "none" /\ r.status = 200 /\ r.body = "envelope"
        /\ ~NoCommentsAtAll(page, r.totalCount)
        /\ r.items = <<>>
        /\ Post(r)
        /\ total_count_from_api' = r.totalCount
        /\ Break
        /\ timeouts_in_row' = StreakAfter(r)
        /\ UNCHANGED <<max_pages, page, total_count, consecutive_empty, comments_data>>

\* variant: the count grows by the number of items received, not by the
\* number of records appended
NonEmptyPageCountsItems ==
    \E r \in Responses, delay \in Uniform(delay_range[1], delay_range[2]) :
        /\ CanRequest
        /\ r.exc = "none" /\ r.status = 200 /\ r.body = "envelope"
        /\ ~NoCommentsAtAll(page, r.totalCount)
        /\ r.items # <<>>
        /\ Post(r)
        /\ total_count_from_api' = r.totalCount
        /\ comments_data' = comments_data \o ParseItems(r.items)
        /\ total_count' = total_count + Len(r.items)
        /\ consecutive_empty' = 0
        /\ page' = page + 1
        /\ SleepDelay(delay, total_count + Len(r.items))
        /\ timeouts_in_row' = StreakAfter(r)
        /\ UNCHANGED max_pages

\* variant: the records of a page are put in front of the collection
NonEmptyPagePrepends ==
    \E r \in Responses, delay \in Uniform(delay_range[1], delay_range[2]) :
        /\ CanRequest
        /\ r.exc = "none" /\ r.status = 200 /\ r.body = "envelope"
        /\ ~NoCommentsAtAll(page, r.totalCount)
        /\ r.items # <<>>
        /\ Post(r)
        /\ total_count_from_api' = r.totalCount
        /\ comments_data' = ParseItems(r.items) \o comments_data
        /\ total_count' = total_count + Len(ParseItems(r.items))
        /\ consecutive_empty' = 0
        /\ page' = page + 1
        /\ SleepDelay(delay, total_count + Len(ParseItems(r.items)))
        /\ timeouts_in_row' = StreakAfter(r)
        /\ UNCHANGED max_pages

\* variant: the records of a page replace the collection instead of extending it
NonEmptyPageOverwrites ==
    \E r \in Responses, delay \in Uniform(delay_range[1], delay_range[2]) :
        /\ CanRequest
        /\ r.exc = "none" /\ r.status = 200 /\ r.body = "envelope"
        /\ ~NoCommentsAtAll(page, r.totalCount)
        /\ r.items # <<>>
        /\ Post(r)
        /\ total_count_from_api' = r.totalCount
        /\ comments_data' = ParseItems(r.items)
        /\ total_count' = total_count + Len(ParseItems(r.items))
        /\ consecutive_empty' = 0
        /\ page' = page + 1
        /\ SleepDelay(delay, total_count + Len(ParseItems(r.items)))
        /\ timeouts_in_row' = StreakAfter(r)
        /\ UNCHANGED max_pages

\* the items of the page are parsed and appended: lines 224-239
NonEmptyPage ==
    \E r \in Responses, delay \in Uniform(delay_range[1], delay_range[2]) :
        /\ CanRequest
        /\ r.exc = "none" /\ r.status = 200 /\ r.body = "envelope"
        /\ ~NoCommentsAtAll(page, r.totalCount)
        /\ r.items # <<>>
        /\ Post(r)
        /\ total_count_from_api' = r.totalCount
        /\ comments_data' = comments_data \o ParseItems(r.items)
        /\ total_count' = total_count + Len(ParseItems(r.items))
        /\ consecutive_empty' = 0
        /\ page' = page + 1
        /\ SleepDelay(delay, total_count + Len(ParseItems(r.items)))
        /\ timeouts_in_row' = StreakAfter(r)
        /\ UNCHANGED max_pages

\* the max_pages arguments tried: None, and the integers -1, 0, 1, 2
MaxPagesArgs == {<<>>, <<-1>>, <<0>>, <<1>>, <<2>>}

\* the delay_range arguments tried: the default (1.5, 3), and (-1, -1)
DelayRanges == {<<DelayLow, DelayHigh>>, <<-2, -2>>}

Next ==
    \/ \E mp \in MaxPagesArgs, dr \in DelayRanges : fetch_comments(mp, dr)
    \/ MaxPagesReached
    \/ HttpError
    \/ Timeout
    \/ ConnectionError
    \/ RequestException
    \/ JSONDecodeError
    \/ MalformedEnvelope
    \/ UnknownError
    \/ FirstPageNoComments
    \/ EmptyPage
    \/ NonEmptyPage

Spec == Init /\ [][Next]_vars

\* ------------------------------------------- two runs on the same spider
\* A second spider.fetch_comments(...) with the same arguments on the spider
\* whose first call has returned: the locals are set anew (lines 171-174),
\* self.comments_data and self.total_count_from_api are those of __init__ and
\* the first run (they are assigned in __init__, lines 50-51, only).
fetch_comments_again ==
    /\ pc = "done"
    /\ recording
    /\ first_run = <<>>
    /\ first_run' = << [history |-> history, comments_data |-> comments_data,
                        returned |-> returned] >>
    /\ history' = <<>>
    /\ pc' = "loop"
    /\ page' = 1
    /\ total_count' = 0
    /\ consecutive_empty' = 0
    /\ returned' = <<>>
    /\ UNCHANGED <<max_pages, delay_range, comments_data, total_count_from_api, requests,
                   response, slept, nsleeps, timeouts_in_row, served, recording>>

\* a freshly constructed spider whose runs are recorded
InitRerun ==
    /\ pc = "idle"
    /\ max_pages = <<>>
    /\ delay_range = <<DelayLow, DelayHigh>>
    /\ page = 0
    /\ total_count = 0
    /\ consecutive_empty = 0
    /\ comments_data = <<>>
    /\ total_count_from_api = 0
    /\ returned = <<>>
    /\ requests = <<>>
    /\ response = NoBody
    /\ slept = 0
    /\ nsleeps = 0
    /\ timeouts_in_row = 0
    /\ served = <<>>
    /\ recording = TRUE
    /\ history = <<>>
    /\ first_run = <<>>

NextRerun ==
    \/ Next
    \/ fetch_comments_again

SpecRerun == InitRerun /\ [][NextRerun]_vars

\* ------------------------------------------------- the mapping of one item
\* The item payloads _parse_comment is applied to: every combination of the
\* field shapes of a JSON object, and an item that is no object.
ItemShapes ==
    [isDict : {TRUE},
     userInfo : {"absent", "null", "dict", "str"},
     publishTypeTag : {"absent", "null", "str", "int"},
     content : {"absent", "null", "str"},
     recommendItems : {"absent", "null", "strs", "ints"},
     images : {"absent", "null", "list", "int"},
     commentId : {1}]
    \cup {NonDictItem}

\* a page of one item has been received and is about to be processed
InitParse ==
    /\ pc = "parse"
    /\ \E item \in ItemShapes : response = Envelope(<<item>>, 1)
    /\ max_pages = <<>>
    /\ delay_range = <<DelayLow, DelayHigh>>
    /\ page = 1
    /\ total_count = 0
    /\ consecutive_empty = 0
    /\ comments_data = <<>>
    /\ total_count_from_api = 1
    /\ returned = <<>>
    /\ requests = <<1>>
    /\ slept = 0
    /\ nsleeps = 0
    /\ timeouts_in_row = 0
    /\ served = <<response.items>>
    /\ recording = FALSE
    /\ history = <<>>
    /\ first_run = <<>>

\* for item in items: comment = self._parse_comment(item); if comment: ...
\* (lines 224-230)
ParsePage ==
    /\ pc = "parse"
    /\ comments_data' = comments_data \o ParseItems(response.items)
    /\ total_count' = total_count + Len(ParseItems(response.items))
    /\ pc' = "parsed"
    /\ UNCHANGED <<max_pages, delay_range, page, consecutive_empty, total_count_from_api,
                   returned, requests, response, slept, nsleeps, timeouts_in_row, served,
                   recording, history, first_run>>

SpecParse == InitParse /\ [][ParsePage]_vars

\* ------------------------------------------------- vocabulary of the claims
\* this step issued a request (and received its outcome in response')
Requested == requests' # requests

\* the outcome is an HTTP status other than success
IsHttpError(r) == r.exc = "none" /\ r.status \notin {0, 200}

\* the outcome counts toward the ceiling: HTTP error status or generic request exception
IsCountableFailure(r) == IsHttpError(r) \/ r.exc = "RequestException"

\* the outcome is a timeout or a connection error
IsBlip(r) == r.exc \in {"Timeout", "ConnectionError"}

\* the outcome is a structurally valid page
IsEnvelope(r) == r.exc = "none" /\ r.status = 200 /\ r.body = "envelope"

\* once fetch_comments has returned, no request is issued
NoRequestAfterReturn == pc = "done" => requests' = requests

\* number of items of a list that _parse_comment maps to a record
Mapped(items) == Cardinality({i \in DOMAIN items : _parse_comment(items[i]) # <<>>})

\* parsed records of a sequence of items lists, in order
RECURSIVE ConcatParsed(_)
ConcatParsed(pages) ==
    IF pages = <<>>
    THEN <<>>
    ELSE LET items == Head(pages)
         IN  [i \in 1..Len(items) |-> _parse_comment(items[i])]
             \o ConcatParsed(Tail(pages))

\* the records of a sequence of optional records (<<>> or <<record>>)
RECURSIVE Present(_)
Present(opts) ==
    IF opts = <<>>
    THEN <<>>
    ELSE Head(opts) \o Present(Tail(opts))

\* ------------------------------------------------------------------ claims
\* C1: when the request for page p yields an HTTP non-success status and the
\* consecutive-failure counter is still under the ceiling after the increment,
\* the page index is not advanced, and the next request issued is again for
\* page p.
C1_HttpErrorRetriesSamePage ==
    [][ /\ (Requested /\ IsHttpError(response')
              /\ consecutive_empty' < max_consecutive_empty)
           => (page' = page /\ pc' = "loop")
        /\ (Requested /\ IsHttpError(response) /\ pc = "loop")
           => requests'[Len(requests')] = requests[Len(requests)]
      ]_vars

\* C2: a countable failure (HTTP non-success status or generic request
\* exception) adds one to the streak and appends no record; the run stops at
\* that attempt exactly when the streak has reached the ceiling, and no
\* request is issued after it stopped.
C2_StopsAtNthFailure ==
    [][ /\ (Requested /\ IsCountableFailure(response'))
           => /\ consecutive_empty' = consecutive_empty + 1
              /\ comments_data' = comments_data
              /\ (pc' = "done") <=> (consecutive_empty' >= max_consecutive_empty)
        /\ NoRequestAfterReturn
      ]_vars

\* the run stopped at the third countable failure in a row, after a page of
\* records had been accumulated
C2_Witness ==
    /\ pc = "done"
    /\ IsCountableFailure(response)
    /\ consecutive_empty = max_consecutive_empty
    /\ comments_data # <<>>

\* C3: a timeout or connection error leaves the failure counter, the page
\* index and the records unchanged and does not end the run; the next request
\* is for the same page.
C3_BlipsChangeNothing ==
    [][ /\ (Requested /\ IsBlip(response'))
           => /\ pc' = "loop"
              /\ UNCHANGED <<page, consecutive_empty, comments_data, total_count,
                             total_count_from_api, returned>>
        /\ (Requested /\ IsBlip(response))
           => requests'[Len(requests')] = requests[Len(requests)]
      ]_vars

\* twice the ceiling of timeouts on page 1, then a page of items was processed
C3_Witness ==
    /\ timeouts_in_row >= 2 * max_consecutive_empty
    /\ IsEnvelope(response)
    /\ pc = "loop"
    /\ page = 2
    /\ consecutive_empty = 0
    /\ comments_data # <<>>

\* C4: a structurally valid page with zero items ends the run at once, the
\* records accumulated before it are unchanged, and no request follows.
C4_EmptyPageStops ==
    [][ /\ (Requested /\ IsEnvelope(response') /\ response'.items = <<>>)
           => (pc' = "done" /\ comments_data' = comments_data)
        /\ NoRequestAfterReturn
      ]_vars

\* the run ended on an empty page 2 with the records of page 1 in place
C4_Witness ==
    /\ pc = "done"
    /\ IsEnvelope(response)
    /\ response.items = <<>>
    /\ comments_data # <<>>
    /\ requests[Len(requests)] = 2

\* C5: a first page whose response reports a total of 0 ends the run at once
\* with no record accumulated and 0 returned, whatever its items list holds.
C5_FirstPageZeroTotal ==
    [][ /\ (Requested /\ page = 1 /\ IsEnvelope(response') /\ response'.totalCount = 0)
           => (pc' = "done" /\ returned' = <<0>> /\ comments_data' = <<>>)
        /\ NoRequestAfterReturn
      ]_vars

\* the first page reported total 0 together with a non-empty items list
C5_Witness ==
    /\ pc = "done"
    /\ requests = <<1>>
    /\ IsEnvelope(response)
    /\ response.totalCount = 0
    /\ response.items # <<>>
    /\ returned = <<0>>

\* C6 as stated: every structurally valid page with a non-empty items list
\* appends as many records as items were mapped, leaves the failure counter at
\* 0 and advances the page index by 1.
C6_EveryNonEmptyPage ==
    [][ (Requested /\ IsEnvelope(response') /\ response'.items # <<>>)
        => /\ Len(comments_data') = Len(comments_data) + Mapped(response'.items)
           /\ consecutive_empty' = 0
           /\ page' = page + 1
      ]_vars

\* C6 amended: the same, for every structurally valid non-empty page other
\* than a first page whose reported total is 0.
C6_NonEmptyPageProcessed ==
    [][ (Requested /\ IsEnvelope(response') /\ response'.items # <<>>
           /\ ~(page = 1 /\ response'.totalCount = 0))
        => /\ Len(comments_data') = Len(comments_data) + Mapped(response'.items)
           /\ consecutive_empty' = 0
           /\ page' = page + 1
      ]_vars

\* page 1 failed once with a counted, retried failure, then gave a page of two
\* items of which one was mapped: one record, counter back at 0, page 2
C6_Witness ==
    /\ requests = <<1, 1>>
    /\ timeouts_in_row = 0
    /\ IsEnvelope(response)
    /\ Len(response.items) = 2
    /\ Len(comments_data) = 1
    /\ consecutive_empty = 0
    /\ page = 2

\* C7: a JSON-decode failure on an HTTP-success response stops the run at
\* once: not retried, failure counter untouched, records kept.
C7_DecodeFailureStops ==
    [][ (Requested /\ response'.status = 200 /\ response'.body = "not_json")
        => /\ pc' = "done"
           /\ consecutive_empty' = consecutive_empty
           /\ comments_data' = comments_data
      ]_vars

\* C8: a response without the result envelope stops the run at once, without
\* retry, with exactly the records accumulated before that page.
C8_MalformedEnvelopeStops ==
    [][ /\ (Requested /\ response'.status = 200 /\ response'.body = "no_result")
           => /\ pc' = "done"
              /\ comments_data' = comments_data
              /\ returned' = <<Len(comments_data)>>
        /\ NoRequestAfterReturn
      ]_vars

\* the run ended on a malformed page 2 with the records of page 1 in place
C8_Witness ==
    /\ pc = "done"
    /\ response.body = "no_result"
    /\ requests = <<1, 2>>
    /\ comments_data # <<>>

\* C9: when every response of the run was a structurally valid page, all
\* non-empty but the last, which was empty, the requests were for pages
\* 1, 2, ..., k+1 in that order and the collection is the parsed items of
\* pages 1..k in order.
C9_FailureFreeRun ==
    (/\ pc = "done"
     /\ served # <<>>
     /\ Len(served) = Len(requests)
     /\ \A i \in 1..Len(served) : (served[i] = <<>>) <=> (i = Len(served)))
    => /\ requests = [i \in 1..Len(served) |-> i]
       /\ comments_data = Present(ConcatParsed(served))

\* two non-empty pages and an empty third: three requests, four records
C9_Witness ==
    /\ pc = "done"
    /\ requests = <<1, 2, 3>>
    /\ Len(served) = 3
    /\ served[1] # <<>> /\ served[2] # <<>> /\ served[3] = <<>>
    /\ Len(comments_data) = 4

\* C10: with max_pages set to an integer M, no request is for a page index
\* greater than M, and the run ends as soon as the next page would exceed M.
C10_NeverBeyondMaxPages ==
    [][ (max_pages # <<>>)
        => /\ \A i \in DOMAIN requests : requests[i] <= max_pages[1]
           /\ (pc = "loop" /\ page > max_pages[1]) => (pc' = "done" /\ requests' = requests)
      ]_vars

\* the first sequence is a prefix of the second
IsPrefix(a, b) == Len(a) <= Len(b) /\ \A i \in 1..Len(a) : a[i] = b[i]

\* this step stayed inside fetch_comments: the loop goes on, or the call
\* returned a count, and the records accumulated before are still there
StaysInside ==
    /\ pc' \in {"loop", "done"}
    /\ (pc' = "done") => (returned' # <<>>)
    /\ IsPrefix(comments_data, comments_data')

\* the branch of the loop body or the except clause that takes the outcome r
\* can run on it and stays inside fetch_comments
HandledInside(r) ==
    /\ IsBlip(r) \/ IsCountableFailure(r) \/ (r.exc = "none" /\ r.status = 200)
    /\ (r.exc = "Timeout") => ENABLED (response' = r /\ Timeout /\ StaysInside)
    /\ (r.exc = "ConnectionError") => ENABLED (response' = r /\ ConnectionError /\ StaysInside)
    /\ (r.exc = "RequestException") => ENABLED (response' = r /\ RequestException /\ StaysInside)
    /\ IsHttpError(r) => ENABLED (response' = r /\ HttpError /\ StaysInside)
    /\ (r.status = 200 /\ r.body = "not_json")
       => ENABLED (response' = r /\ (RequestException \/ JSONDecodeError) /\ StaysInside)
    /\ (r.status = 200 /\ r.body = "no_result")
       => ENABLED (response' = r /\ MalformedEnvelope /\ StaysInside)
    /\ (r.status = 200 /\ r.body = "null_result")
       => ENABLED (response' = r /\ UnknownError /\ StaysInside)
    /\ IsEnvelope(r)
       => ENABLED (response' = r /\ (FirstPageNoComments \/ EmptyPage \/ NonEmptyPage)
                   /\ StaysInside)

\* C11: whatever the outcome of a page request, fetch_comments handles it:
\* the run goes on to another iteration or returns its count, with the
\* records accumulated so far kept; no outcome leaves the call as an exception.
C11_NoOutcomeEscapes ==
    /\ [](CanRequest => \A r \in Responses : HandledInside(r))
    /\ [][Requested => StaysInside]_vars

\* the run ended through `except Exception` on page 2 and returned the count
\* of the records of page 1, which are still held
C11_Witness ==
    /\ pc = "done"
    /\ response.body = "null_result"
    /\ requests = <<1, 2>>
    /\ comments_data # <<>>
    /\ returned = <<Len(comments_data)>>

\* C12: the stored server-reported total is captured once: after a first
\* result envelope has set it, no later page response changes it.
C12_TotalCapturedOnce ==
    [][ (Requested /\ IsEnvelope(response') /\ served # <<>>)
        => total_count_from_api' = total_count_from_api
      ]_vars

\* C13: when a second run on the same spider has been fed the outcomes of the
\* first, the collection available after it equals the collection the first
\* run produced.
C13_SecondRunSameCollection ==
    (/\ pc = "done"
     /\ first_run # <<>>
     /\ history = first_run[1].history)
    => comments_data = first_run[1].comments_data

\* the item of the page that ParsePage processes
TheItem == response.items[1]

\* the mapped fields of an item whose shape is a structural anomaly
\* (missing key, null, or unexpected type)
Anomalies(item) ==
    {f \in {"userInfo", "publishTypeTag", "content", "recommendItems", "images"} :
        \/ item[f] \in {"absent", "null"}
        \/ f = "userInfo" /\ item[f] = "str"
        \/ f = "publishTypeTag" /\ item[f] = "int"
        \/ f = "recommendItems" /\ item[f] = "ints"
        \/ f = "images" /\ item[f] = "int"}

\* the record the item is to be mapped to: each anomalous field at its default
\* (anonymous author, empty identity, date, body and tags, zero images), every
\* other field at its value
Defaulted(item) ==
    [author |-> IF "userInfo" \in Anomalies(item) THEN "anonymous" ELSE "userNick",
     identity |-> IF "userInfo" \in Anomalies(item) THEN "" ELSE "identitiesName",
     date |-> IF "publishTypeTag" \in Anomalies(item) THEN "" ELSE "date",
     content |-> IF "content" \in Anomalies(item) THEN "" ELSE "content",
     tags |-> IF "recommendItems" \in Anomalies(item) THEN "" ELSE "tag,tag",
     imageCount |-> IF "images" \in Anomalies(item) THEN 0 ELSE 2,
     commentId |-> item.commentId]

\* C14: an item with a structural anomaly in a single mapped field is still
\* mapped to a record and appended, with only that field at its default.
C14_SingleFieldAnomalyDegrades ==
    (pc = "parsed" /\ TheItem.isDict /\ Cardinality(Anomalies(TheItem)) = 1)
    => comments_data = <<Defaulted(TheItem)>>

\* C15: an item without userInfo key, its other fields well-formed or absent,
\* is mapped to a record with the anonymous author and the empty identity
\* badge, and the record is appended.
C15_MissingUserInfoDefaults ==
    (/\ pc = "parsed"
     /\ TheItem.isDict
     /\ TheItem.userInfo = "absent"
     /\ TheItem.publishTypeTag \in {"absent", "str"}
     /\ TheItem.content \in {"absent", "str"}
     /\ TheItem.recommendItems \in {"absent", "strs"}
     /\ TheItem.images \in {"absent", "list"})
    => /\ Len(comments_data) = 1
       /\ comments_data[1].author = "anonymous"
       /\ comments_data[1].identity = ""
       /\ comments_data[1].commentId = TheItem.commentId

\* an item with every field but userInfo well-formed has been appended with
\* the anonymous author
C15_Witness ==
    /\ pc = "parsed"
    /\ TheItem = [WellFormedItem EXCEPT !.userInfo = "absent"]
    /\ Len(comments_data) = 1
    /\ comments_data[1].author = "anonymous"
    /\ comments_data[1].identity = ""
    /\ comments_data[1].content = "content"

\* the records of one items list, in the order of the list
RecordsOf(items) == Present([i \in 1..Len(items) |-> _parse_comment(items[i])])

\* C16: every step keeps the records accumulated so far as a prefix; an outcome
\* that is no structurally valid page appends nothing; what a page appends are
\* the records of the page just requested, behind all earlier ones and in the
\* order of its items; and the page a request is for is never below the page
\* of the request before it.
C16_AppendOnlyOrdered ==
    [][/\ IsPrefix(comments_data, comments_data')
       /\ Requested =>
            /\ ~IsEnvelope(response') => comments_data' = comments_data
            /\ IsEnvelope(response') =>
                 \/ comments_data' = comments_data
                 \/ comments_data' = comments_data \o RecordsOf(response'.items)
            /\ requests # <<>> =>
                 requests'[Len(requests')] >= requests[Len(requests)]]_vars

\* records of two pages, with a failure between the two, lie in page order and
\* in item order
C16_Witness ==
    /\ Len(requests) >= 3
    /\ \E i \in 1..Len(requests) : requests[i] = 2
    /\ IsCountableFailure(response)
    /\ Len(comments_data) = 3
    /\ comments_data[1].commentId = 1
    /\ comments_data[2].commentId = 2
    /\ comments_data[3].commentId = 1

\* C18: requests are issued one at a time; a request whose outcome lets the run
\* go on is followed by exactly one sleep before the next request, of 3 s after
\* an HTTP error status, 10 s after a connection error, 5 s after a timeout,
\* 5 s after a generic request exception, and a value within the delay range
\* after a non-empty page (durations in half seconds); an outcome that
\* ends the run is followed by no sleep; and nothing else sleeps.
C18_OneSleepPerRequest ==
    /\ [](pc = "loop" => nsleeps = Len(requests))
    /\ [][/\ Requested =>
               /\ Len(requests') = Len(requests) + 1
               /\ IF pc' = "loop"
                  THEN /\ nsleeps' = nsleeps + 1
                       /\ IsHttpError(response') => slept' = 6
                       /\ response'.exc = "ConnectionError" => slept' = 20
                       /\ response'.exc = "Timeout" => slept' = 10
                       /\ response'.exc = "RequestException" => slept' = 10
                       /\ IsEnvelope(response') =>
                            /\ response'.items # <<>>
                            /\ slept' \in Uniform(delay_range[1], delay_range[2])
                  ELSE nsleeps' = nsleeps /\ slept' = 0
          /\ ~Requested => nsleeps' = nsleeps]_vars

\* a connection error on a later page has been waited out for 10 s
C18_Witness ==
    /\ pc = "loop"
    /\ Len(requests) >= 2
    /\ response.exc = "ConnectionError"
    /\ slept = 20
    /\ nsleeps = Len(requests)

\* C19: when a run on a freshly constructed spider has ended, on whichever
\* path, the count it returned is the number of records held in comments_data;
\* so the returned count is above 0, and main saves, exactly when at least one
\* record was accumulated.
C19_ReturnedCountIsRecordCount ==
    pc = "done" =>
        /\ returned = <<Len(comments_data)>>
        /\ (returned[1] > 0 <=> comments_data # <<>>)

\* a run has ended after a page of which one item was dropped and one appended
C19_Witness ==
    /\ pc = "done"
    /\ \E i \in 1..Len(served) : served[i] = <<NonDictItem, WellFormedItem>>
    /\ returned = <<1>>
    /\ Len(comments_data) = 1

\* the outcome is a fatal response: status 200 with a body that is not JSON or
\* is no result envelope
IsFatal(r) == r.exc = "none" /\ r.status = 200 /\ r.body # "envelope"

\* C17: the run terminates when timeouts and connection errors are finitely
\* many and a page ceiling is configured or some page is answered with an empty
\* items list or a fatal response.  As obligations on every request: with a
\* ceiling M configured no request is for a page beyond M; an empty items list
\* or a fatal response ends the run in that step; an outcome other than a
\* timeout or connection error that lets the run go on advances the page or
\* raises the failure counter, which stays under the ceiling of 3; and when
\* every outcome so far is an HTTP error status or a generic request exception
\* the run has ended by the third request.
C17_RunTerminates ==
    [][Requested =>
         /\ max_pages # <<>> => requests'[Len(requests')] <= max_pages[1]
         /\ (IsEnvelope(response') /\ response'.items = <<>>) => pc' = "done"
         /\ IsFatal(response') => pc' = "done"
         /\ (~IsBlip(response') /\ pc' = "loop") =>
              /\ page' > page \/ consecutive_empty' > consecutive_empty
              /\ consecutive_empty' < 3
         /\ (IsCountableFailure(response') /\ consecutive_empty = Len(requests)) =>
              /\ Len(requests') <= 3
              /\ Len(requests') = 3 => pc' = "done"]_vars

====
